---- MODULE Spec2Model ----
(***************************************************************************)
(* Sentiment analysis by fine-tuning a word language model                  *)
(* (sentiment_analysis.ipynb): masked mean pooling, preprocess_dataset(),  *)
(* the length-bucketed data pipeline, evaluate(), train() and the           *)
(* single-sentence inference cells.                                         *)
(*                                                                          *)
(* Conventions                                                              *)
(*  - Tensors are indexed from 1: position t of the code (0-based) is index *)
(*    t+1, so "t < valid_length[j]" reads "t <= valid_length[j]".           *)
(*  - A (T, N, C) feature tensor is kept as data[t][j] for one channel:     *)
(*    SequenceMask, sum(axis=0) and broadcast_div act on every channel      *)
(*    alike.                                                                *)
(*  - Real numbers are exact fractions <<num, den>> in lowest terms, den>0; *)
(*    0/0 is NaN == <<0, 0>>.                                               *)
(***************************************************************************)
EXTENDS Integers, Sequences, FiniteSets, TLC

VARIABLES
    \* ---- one call of the network: MeanPoolingLayer's arguments and result
    data,            \* encoder features, data[t][j]  (shape (T, N))
    valid_length,    \* valid_length[j]
    agg_state,       \* pooled vector, agg_state[j] (a fraction), <<>> before the call
    pool_pc,         \* "ready" | "pooled" | "inferred" | "off"
    \* ---- configuration (the hyperparameter cell)
    batch_size,
    bucket_num,
    bucket_ratio,    \* a fraction <<num, den>>
    \* ---- the training data pipeline (get_dataloader, train_dataloader)
    train_dataset,       \* sequence of examples <<token ids, label>>
    train_data_lengths,  \* sequence of lengths, one per example
    batch_sampler,       \* the FixedBucketSampler object (a record), <<>> before it is built
    loader_pc,           \* "start" | "ready" | "iterating" | "error" | "off"
    batch_pos,           \* number of batches yielded in the current iteration
    yielded,             \* the index groups yielded in the current iteration
    batch,               \* the last assembled batch <<<<padded, lengths>>, labels>>
    iterations,          \* completed iterations of train_dataloader: 0, 1, or 2
                         \* for two or more (the loader may be iterated for ever)
    \* ---- train(net, context, epochs)
    pc,              \* control position of train / evaluate; "error": left by a
                     \* ZeroDivisionError, "aborted": left by an exception of a batch
    epochs,          \* the argument of train
    grad_clip,       \* <<>> (None) or <<threshold>>
    train_batches,   \* len(train_dataloader)
    epoch,           \* index of the current iteration of the epoch loop
    batch_i,         \* number of training batches finished in this epoch (i)
    params,          \* version of each parameter group (0 = as constructed)
    fwd_params,      \* the parameter versions read by the last forward pass
    grad,            \* "none" | "fresh" | "clipped"
    ops,             \* the operations applied to the current training batch
    steps_total,     \* optimizer steps applied since train was called
    eval_started,    \* evaluation passes started
    eval_finished,   \* evaluation passes that returned
    raised,          \* TRUE once a statement of a batch has raised an exception
    \* ---- evaluate(net, dataloader, context)
    test_dataset,    \* sequence of examples <<token ids, label>>
    eval_i,          \* number of evaluation batches finished in this pass
    total_sample_num,
    total_correct_num,
    output,          \* logits of the last evaluation batch (fractions or NaN)
    pred,            \* pred of the last evaluation batch (0/1)
    label,           \* labels of the last evaluation batch (0/1)
    test_acc,        \* the accuracy evaluate returned (a fraction), <<>> before
    \* ---- preprocess_dataset(dataset)
    raw_dataset,     \* the argument: reviews <<words, rating>>
    prep_dataset,    \* the local `dataset`: the argument, then the mapped examples
    prep_lengths,    \* the local `lengths`, <<>> before it is assigned
    map_results,     \* results of the running pool.map, by task index
    map_order,       \* task indices in the order the workers finished them
    prep_pc          \* "map_preprocess" | "map_get_length" | "done" | "off"

poolVars == <<data, valid_length, agg_state, pool_pc>>

configVars == <<batch_size, bucket_num, bucket_ratio>>

loaderVars == <<train_dataset, train_data_lengths, batch_sampler, loader_pc,
                batch_pos, yielded, batch, iterations>>

trainVars == <<pc, epochs, grad_clip, raised, train_batches, epoch, batch_i, params,
               fwd_params, grad, ops, steps_total, eval_started, eval_finished,
               raised>>

evalVars == <<test_dataset, eval_i, total_sample_num, total_correct_num,
              output, pred, label, test_acc>>

prepVars == <<raw_dataset, prep_dataset, prep_lengths, map_results, map_order, prep_pc>>

vars == <<poolVars, configVars, loaderVars, trainVars, evalVars, prepVars>>

----------------------------------------------------------------------------
\* Bounds of the model

\* longest padded sequence of a batch
MaxSeqLen == 3

\* largest number of examples of a dataset
MaxExamples == 3
\* largest value of train's argument epochs
MaxEpochs == 2
\* largest number of batches of train_dataloader
MaxTrainBatches == 2
\* largest number of reviews handed to preprocess_dataset
MaxReviews == 2

\* feature values an encoder position may hold (pad positions included)
FeatVals == {0, 1, 2}
\* numbers of columns (examples) of a batch handed to the pooling layer
PoolColumns == {1, 2}
\* lengths (token counts) of the training examples tried: 0, which the sampler
\* refuses, and lengths that spread over two buckets
TrainLens == {0, 1, 2, 3}
\* configurations tried: batch_size, bucket_num, and bucket_ratio (the
\* notebook's 0.2, and 1, for which short buckets get larger batches)
BatchSizes == {2, 3}
BucketNums == {1, 2}
Ratios == {<<1, 5>>, <<1, 1>>}

----------------------------------------------------------------------------
\* Arithmetic helpers

RECURSIVE GCD(_, _)
GCD(a, b) == IF b = 0 THEN a ELSE GCD(b, a % b)

Abs(x) == IF x < 0 THEN -x ELSE x

NaN == <<0, 0>>

\* the fraction n/d in lowest terms (d > 0)
Frac(n, d) ==
    LET g == GCD(Abs(n), d) IN <<n \div g, d \div g>>

RECURSIVE SumTo(_, _)
\* f[1] + ... + f[n]
SumTo(f, n) == IF n = 0 THEN 0 ELSE f[n] + SumTo(f, n - 1)

----------------------------------------------------------------------------
\* MeanPoolingLayer.hybrid_forward

\* F.SequenceMask(data, sequence_length=valid_length, use_sequence_length=True):
\* every position at or beyond the column's length is set to 0
SequenceMask(d, len) ==
    [t \in DOMAIN d |->
        [j \in DOMAIN d[t] |-> IF t <= len[j] THEN d[t][j] ELSE 0]]

\* F.sum(x, axis=0): per column, the sum over all T positions
SumAxis0(x, n) ==
    [j \in 1..n |-> SumTo([t \in 1..Len(x) |-> x[t][j]], Len(x))]

\* F.broadcast_div(s, F.expand_dims(valid_length, axis=1)); 0/0 is NaN
\* (the masked sum of a column of length 0 is 0)
BroadcastDiv(s, len) ==
    [j \in DOMAIN s |-> IF len[j] = 0 THEN NaN ELSE Frac(s[j], len[j])]

\* MeanPoolingLayer without the mask
MeanPoolingLayerNoMask(d, len) ==
    BroadcastDiv(SumAxis0(d, Len(len)), len)

MeanPoolingLayer(d, len) ==
    BroadcastDiv(SumAxis0(SequenceMask(d, len), Len(len)), len)

----------------------------------------------------------------------------
\* The inference cells

\* x > y on fractions; every comparison with NaN is false
Greater(x, y) == x # NaN /\ y # NaN /\ x[1] * y[2] > y[1] * x[2]

Zero == <<0, 1>>
Half == <<1, 2>>

\* the logits the output layer may return for a defined pooled vector:
\* -1/2, 0, 1/2 and 1
Logits == {<<-1, 2>>, <<0, 1>>, <<1, 2>>, <<1, 1>>}

\* self.output(agg_state): a NaN pooled vector gives a NaN logit, any other
\* one some logit that depends on the parameters
OutputLayer(agg) ==
    {out \in [DOMAIN agg -> Logits \cup {NaN}] :
        \A j \in DOMAIN agg : (out[j] = NaN) <=> (agg[j] = NaN)}

\* .sigmoid() on the logits tried, to four decimals: 1 / (1 + exp(-x))
Sigmoid(x) ==
    CASE x = <<-1, 2>> -> Frac(3775, 10000)
      [] x = <<0, 1>>  -> Frac(1, 2)
      [] x = <<1, 2>>  -> Frac(6225, 10000)
      [] x = <<1, 1>>  -> Frac(7311, 10000)
      [] OTHER         -> NaN

\* mx.nd.array([4], ctx=context): the valid length handed to net
InferValidLength == 4

\* longest sentence handed to the inference cell: one token more than the
\* valid length the cell passes
MaxSentLen == InferValidLength + 1

----------------------------------------------------------------------------
\* One call of the pooling layer on an arbitrary feature tensor

Tensors(T, N) == [1..T -> [1..N -> FeatVals]]

PoolOff ==
    /\ data = <<>>
    /\ valid_length = <<>>
    /\ agg_state = <<>>
    /\ pool_pc = "off"

ConfigOff ==
    /\ batch_size = 0
    /\ bucket_num = 0
    /\ bucket_ratio = <<0, 1>>

LoaderOff ==
    /\ train_dataset = <<>>
    /\ train_data_lengths = <<>>
    /\ batch_sampler = <<>>
    /\ loader_pc = "off"
    /\ batch_pos = 0
    /\ yielded = <<>>
    /\ batch = <<>>
    /\ iterations = 0

TrainOff ==
    /\ pc = "off"
    /\ epochs = 0
    /\ grad_clip = <<>>
    /\ train_batches = 0
    /\ epoch = 0
    /\ batch_i = 0
    /\ params = [embedding |-> 0, encoder |-> 0, output |-> 0]
    /\ fwd_params = <<>>
    /\ grad = "none"
    /\ ops = <<>>
    /\ steps_total = 0
    /\ eval_started = 0
    /\ eval_finished = 0
    /\ raised = FALSE

EvalOff ==
    /\ test_dataset = <<>>
    /\ eval_i = 0
    /\ total_sample_num = 0
    /\ total_correct_num = 0
    /\ output = <<>>
    /\ pred = <<>>
    /\ label = <<>>
    /\ test_acc = <<>>

PrepOff ==
    /\ raw_dataset = <<>>
    /\ prep_dataset = <<>>
    /\ prep_lengths = <<>>
    /\ map_results = <<>>
    /\ map_order = <<>>
    /\ prep_pc = "off"

InitPool ==
    /\ PrepOff
    /\ ConfigOff
    /\ LoaderOff
    /\ TrainOff
    /\ EvalOff
    /\ \E T \in 1..MaxSentLen, N \in PoolColumns :
          /\ (T <= MaxSeqLen \/ N = 1)
          /\ data \in Tensors(T, N)
          /\ valid_length \in [1..N -> 0..T]
    /\ agg_state = <<>>
    /\ pool_pc = "ready"

\* agg_layer(encoded, valid_length)
Forward ==
    /\ pool_pc = "ready"
    /\ agg_state' = MeanPoolingLayer(data, valid_length)
    /\ pool_pc' = "pooled"
    /\ UNCHANGED <<prepVars, data, valid_length, configVars, loaderVars, trainVars, evalVars>>

\* the same call again after the content of one pad position was replaced
PadContaminate ==
    /\ pool_pc = "pooled"
    /\ \E t \in 1..Len(data), j \in 1..Len(valid_length), v \in FeatVals :
          /\ t > valid_length[j]
          /\ v # data[t][j]
          /\ data' = [data EXCEPT ![t][j] = v]
    /\ agg_state' = MeanPoolingLayer(data', valid_length)
    /\ UNCHANGED <<prepVars, valid_length, pool_pc, configVars, loaderVars, trainVars, evalVars>>

\* res = net(reshape(array(vocab[tokenizer(test_sentence)]), shape=(-1, 1)),
\*           mx.nd.array([4]))
\* data holds the encoder features of the sentence's one column
\* output holds the logit net returned, pred the label printed:
\* 1 (Positive) if res[0] > .5 with res the sigmoid of the logit, else 0
InferenceCell ==
    /\ pool_pc = "ready"
    /\ Len(valid_length) = 1
    /\ valid_length' = <<InferValidLength>>
    /\ agg_state' = MeanPoolingLayer(data, valid_length')
    /\ output' \in OutputLayer(agg_state')
    /\ pred' = <<IF Greater(Sigmoid(output'[1]), Half) THEN 1 ELSE 0>>
    /\ pool_pc' = "inferred"
    /\ UNCHANGED <<prepVars, data, configVars, loaderVars, trainVars, test_dataset,
                   eval_i, total_sample_num, total_correct_num, label, test_acc>>

NextPool == Forward \/ PadContaminate \/ InferenceCell

SpecPool == InitPool /\ [][NextPool]_vars

----------------------------------------------------------------------------
\* The data pipeline: datasets, FixedBucketSampler, batchify_fn, DataLoader

Max2(a, b) == IF a >= b THEN a ELSE b
Min2(a, b) == IF a <= b THEN a ELSE b

MaxOf(S) == CHOOSE x \in S : \A y \in S : y <= x
MinOf(S) == CHOOSE x \in S : \A y \in S : x <= y

Range(f) == {f[x] : x \in DOMAIN f}

RECURSIVE PermsOf(_)
\* all sequences that list every element of the finite set S once
PermsOf(S) ==
    IF S = {} THEN {<<>>}
    ELSE UNION {{<<x>> \o p : p \in PermsOf(S \ {x})} : x \in S}

\* all orders of the (distinct) elements of sequence s: np.random.shuffle's
\* outcomes
Perms(s) == PermsOf(Range(s))

RECURSIVE PermsEach(_, _)
\* all ways to reorder each of the first b sequences of ss
PermsEach(ss, b) ==
    IF b = 0 THEN {<<>>}
    ELSE {Append(front, last) : front \in PermsEach(ss, b - 1), last \in Perms(ss[b])}

\* the ascending sequence of the elements of a finite set of integers
RECURSIVE SortedSeq(_)
SortedSeq(S) ==
    IF S = {} THEN <<>> ELSE <<MinOf(S)>> \o SortedSeq(S \ {MinOf(S)})

\* token id k of example i: any id of the vocabulary but the pad value 0
TokenOf(i, k) == 1 + ((i + k) % 2)

\* example i of a preprocessed dataset with n token ids; labels alternate
Example(i, n) == <<[k \in 1..n |-> TokenOf(i, k)], i % 2>>

\* get_length
get_length(x) == Len(x[1])

\* nlp.data.batchify.Pad(axis=0, ret_length=True): pad value 0
PadVal == 0

\* Pad(pad_val, ret_length=True) on a non-empty list of sequences:
\* <<padded (N rows of max_len), lengths>>
Pad(seqs, pad_val) ==
    LET lens == [j \in 1..Len(seqs) |-> Len(seqs[j])]
        m == MaxOf(Range(lens))
    IN <<[j \in 1..Len(seqs) |->
            [t \in 1..m |-> IF t <= lens[j] THEN seqs[j][t] ELSE pad_val]],
         lens>>

\* nlp.data.batchify.Stack(dtype='float32')
Stack(labels) == labels

\* batchify_fn that stacks the labels of the samples sorted by length
\* (longest first) while the sequences keep the group's order
batchify_fnLabelsByLength(samples) ==
    LET n == Len(samples)
        rank(j) == Cardinality({i \in 1..n :
                       \/ Len(samples[i][1]) > Len(samples[j][1])
                       \/ (Len(samples[i][1]) = Len(samples[j][1]) /\ i < j)}) + 1
        at(r) == CHOOSE j \in 1..n : rank(j) = r
    IN <<Pad([j \in 1..n |-> samples[j][1]], PadVal),
         Stack([r \in 1..n |-> samples[at(r)][2]])>>

\* batchify_fn = Tuple(Pad(axis=0, ret_length=True), Stack(dtype='float32'))
batchify_fn(samples) ==
    <<Pad([j \in 1..Len(samples) |-> samples[j][1]], PadVal),
      Stack([j \in 1..Len(samples) |-> samples[j][2]])>>

\* DataLoader: the samples of one index group, in the group's order, batchified
LoadBatch(dataset, group) ==
    batchify_fn([j \in 1..Len(group) |-> dataset[group[j]]])

\* keys of constant width that start at min_length instead of ending at
\* max_length
ConstWidthBucketFromMin(max_length, min_length, num_buckets) ==
    LET width == Max2((1 + max_length - min_length) \div num_buckets, 1)
    IN {Min2(min_length + i * width, max_length) : i \in 0..(num_buckets - 1)}

\* ConstWidthBucket: num_buckets keys of constant width ending at max_length
ConstWidthBucket(max_length, min_length, num_buckets) ==
    LET width == Max2((1 + max_length - min_length) \div num_buckets, 1)
    IN {Max2(max_length - i * width, min_length) : i \in 0..(num_buckets - 1)}

\* _match_bucket_keys: the key with the least padding among those that fit;
\* an example longer than every key goes to the last bucket
MatchBucketKey(keys, len) ==
    IF \E k \in keys : k >= len THEN MinOf({k \in keys : k >= len})
    ELSE MaxOf(keys)

\* FixedBucketSampler.__init__'s assertions
SamplerArgsOk(lengths, bs, num_buckets) ==
    /\ Len(lengths) > 0
    /\ bs > 0
    /\ num_buckets > 0
    /\ \A i \in 1..Len(lengths) : lengths[i] > 0

\* the (bucket_id, batch_begin) pairs of bucket b, batch_begin 0-based
BucketBatchInfos(b, count, bbs) ==
    [k \in 1..((count + bbs - 1) \div bbs) |-> <<b, (k - 1) * bbs>>]

RECURSIVE BatchInfosFrom(_, _, _)
\* buckets b, b-1, ..., 1 in turn (the sampler walks the buckets in reverse)
BatchInfosFrom(b, ids, sizes) ==
    IF b = 0 THEN <<>>
    ELSE BucketBatchInfos(b, Len(ids[b]), sizes[b]) \o BatchInfosFrom(b - 1, ids, sizes)

\* FixedBucketSampler(lengths, batch_size, num_buckets, ratio, shuffle)
FixedBucketSampler(lengths, bs, num_buckets, ratio, shuffle) ==
    LET lenset == Range(lengths)
        all_keys == ConstWidthBucket(MaxOf(lenset), MinOf(lenset), num_buckets)
        key_of == [i \in 1..Len(lengths) |-> MatchBucketKey(all_keys, lengths[i])]
        \* empty buckets are removed
        keys == SortedSeq(Range(key_of))
        ids == [b \in 1..Len(keys) |->
                  SortedSeq({i \in 1..Len(lengths) : key_of[i] = keys[b]})]
        max_key == keys[Len(keys)]
        sizes == [b \in 1..Len(keys) |->
                  Max2((max_key * ratio[1] * bs) \div (keys[b] * ratio[2]), bs)]
    IN [bucket_keys |-> keys,
        bucket_sample_ids |-> ids,
        bucket_batch_sizes |-> sizes,
        batch_infos |-> BatchInfosFrom(Len(keys), ids, sizes),
        shuffle |-> shuffle]

\* a slice that ignores the bucket's batch size and takes the rest of the bucket
SamplerBatchRest(s, k) ==
    LET info == s.batch_infos[k]
        ids == s.bucket_sample_ids[info[1]]
    IN SubSeq(ids, info[2] + 1, Len(ids))

\* the k-th index group of an iteration:
\* bucket_sample_ids[bucket_id][batch_begin:batch_end]
SamplerBatch(s, k) ==
    LET info == s.batch_infos[k]
        ids == s.bucket_sample_ids[info[1]]
        batch_end == Min2(info[2] + s.bucket_batch_sizes[info[1]], Len(ids))
    IN SubSeq(ids, info[2] + 1, batch_end)

\* a shuffle that also moves the sample ids across the buckets
ShuffledAcrossBuckets(s) ==
    IF ~s.shuffle THEN {s}
    ELSE LET n == Len(s.bucket_keys)
             all == UNION {Range(s.bucket_sample_ids[b]) : b \in 1..n}
             start(b) == SumTo([c \in 1..n |-> Len(s.bucket_sample_ids[c])], b - 1)
         IN {[s EXCEPT !.batch_infos = infos,
                       !.bucket_sample_ids =
                           [b \in 1..n |->
                               SubSeq(p, start(b) + 1,
                                      start(b) + Len(s.bucket_sample_ids[b]))]] :
               infos \in Perms(s.batch_infos), p \in PermsOf(all)}

\* the sampler states after FixedBucketSampler.__iter__'s shuffles: the batch
\* infos are shuffled, and the sample ids inside every bucket
Shuffled(s) ==
    IF ~s.shuffle THEN {s}
    ELSE {[s EXCEPT !.batch_infos = infos, !.bucket_sample_ids = ids] :
            infos \in Perms(s.batch_infos),
            ids \in PermsEach(s.bucket_sample_ids, Len(s.bucket_keys))}

InitLoader ==
    /\ PrepOff
    /\ PoolOff
    /\ TrainOff
    /\ EvalOff
    /\ batch_size \in BatchSizes
    /\ bucket_num \in BucketNums
    /\ bucket_ratio \in Ratios
    \* with one bucket its key is the largest key and its batch size is
    \* batch_size whatever the ratio (<= 1): one ratio is tried
    /\ bucket_num = 1 => bucket_ratio = <<1, 5>>
    /\ \E n \in 1..MaxExamples : \E lens \in [1..n -> TrainLens] :
          /\ train_dataset = [i \in 1..n |-> Example(i, lens[i])]
          /\ train_data_lengths = [i \in 1..n |-> get_length(Example(i, lens[i]))]
    /\ batch_sampler = <<>>
    /\ loader_pc = "start"
    /\ batch_pos = 0
    /\ yielded = <<>>
    /\ batch = <<>>
    /\ iterations = 0

\* get_dataloader: the sampler is built, shuffle=True in the notebook
GetDataloader ==
    /\ loader_pc = "start"
    /\ SamplerArgsOk(train_data_lengths, batch_size, bucket_num)
    /\ \E shuffle \in BOOLEAN :
          batch_sampler' = FixedBucketSampler(train_data_lengths, batch_size,
                                              bucket_num, bucket_ratio, shuffle)
    /\ loader_pc' = "ready"
    /\ UNCHANGED <<prepVars, poolVars, configVars, trainVars, evalVars, train_dataset, train_data_lengths,
                   batch_pos, yielded, batch, iterations>>

\* get_dataloader fails in the sampler's constructor
GetDataloaderError ==
    /\ loader_pc = "start"
    /\ ~SamplerArgsOk(train_data_lengths, batch_size, bucket_num)
    /\ loader_pc' = "error"
    /\ UNCHANGED <<prepVars, poolVars, configVars, trainVars, evalVars, train_dataset, train_data_lengths,
                   batch_sampler, batch_pos, yielded, batch, iterations>>

\* iter(train_dataloader): the sampler reshuffles in place
LoaderIter ==
    /\ loader_pc = "ready"
    /\ batch_sampler' \in Shuffled(batch_sampler)
    /\ batch_pos' = 0
    /\ yielded' = <<>>
    /\ loader_pc' = "iterating"
    /\ UNCHANGED <<prepVars, poolVars, configVars, trainVars, evalVars, train_dataset, train_data_lengths,
                   batch, iterations>>

\* next(...): the next index group and its assembled batch
LoaderNext ==
    /\ loader_pc = "iterating"
    /\ batch_pos < Len(batch_sampler.batch_infos)
    /\ LET group == SamplerBatch(batch_sampler, batch_pos + 1) IN
          /\ yielded' = Append(yielded, group)
          /\ batch' = LoadBatch(train_dataset, group)
    /\ batch_pos' = batch_pos + 1
    /\ UNCHANGED <<prepVars, poolVars, configVars, trainVars, evalVars, train_dataset, train_data_lengths,
                   batch_sampler, loader_pc, iterations>>

\* the iteration is exhausted
LoaderStop ==
    /\ loader_pc = "iterating"
    /\ batch_pos = Len(batch_sampler.batch_infos)
    /\ loader_pc' = "ready"
    /\ iterations' = Min2(iterations + 1, 2)
    /\ UNCHANGED <<prepVars, poolVars, configVars, trainVars, evalVars, train_dataset, train_data_lengths,
                   batch_sampler, batch_pos, yielded, batch>>

NextLoader ==
    \/ GetDataloader
    \/ GetDataloaderError
    \/ LoaderIter
    \/ LoaderNext
    \/ LoaderStop

SpecLoader == InitLoader /\ [][NextLoader]_vars

----------------------------------------------------------------------------
\* Properties of the data pipeline

RECURSIVE Flatten(_)
Flatten(ss) == IF ss = <<>> THEN <<>> ELSE Head(ss) \o Flatten(Tail(ss))

NoDuplicates(s) == \A a, b \in 1..Len(s) : s[a] = s[b] => a = b

\* C7: one iteration of the length-bucketed sampler yields index groups that
\* partition the example indices: no index is yielded twice, and when the
\* iteration is exhausted every index of the dataset has been yielded exactly
\* once; the same holds for every later iteration, with or without shuffling.
C7_EpochPartition ==
    LET flat == Flatten(yielded) IN
    /\ loader_pc = "iterating" =>
          /\ NoDuplicates(flat)
          /\ Range(flat) \subseteq 1..Len(train_dataset)
    /\ (loader_pc = "ready" /\ iterations >= 1) =>
          /\ NoDuplicates(flat)
          /\ Range(flat) = 1..Len(train_dataset)

\* a second, shuffled iteration of several batches has been exhausted
C7_Witness ==
    /\ loader_pc = "ready"
    /\ iterations = 2
    /\ batch_sampler.shuffle
    /\ Len(yielded) >= 2
    /\ \E k \in 1..Len(yielded) : Len(yielded[k]) >= 2

\* C8: the sampler's bucket keys are strictly increasing, every example's
\* length is at most the largest key, every example is a member of the bucket
\* with the smallest key >= its length (and of no other bucket), and the
\* member counts of the buckets sum to the number of examples.
C8_BucketInvariant ==
    batch_sampler # <<>> =>
      LET keys == batch_sampler.bucket_keys
          ids == batch_sampler.bucket_sample_ids
          n == Len(train_data_lengths)
      IN /\ \A b \in 1..(Len(keys) - 1) : keys[b] < keys[b + 1]
         /\ \A i \in 1..n : train_data_lengths[i] <= keys[Len(keys)]
         /\ \A i \in 1..n : \A b \in 1..Len(keys) :
               (i \in Range(ids[b])) <=>
                  /\ keys[b] >= train_data_lengths[i]
                  /\ \A c \in 1..Len(keys) :
                        keys[c] >= train_data_lengths[i] => keys[b] <= keys[c]
         /\ SumTo([b \in 1..Len(keys) |-> Len(ids[b])], Len(keys)) = n

\* a sampler of two buckets, the lower one holding an example shorter than
\* its key
C8_Witness ==
    /\ batch_sampler # <<>>
    /\ Len(batch_sampler.bucket_keys) = 2
    /\ \E i \in 1..Len(train_data_lengths) :
          /\ train_data_lengths[i] < batch_sampler.bucket_keys[1]
          /\ i \in Range(batch_sampler.bucket_sample_ids[1])

\* C9: every assembled batch has max_len equal to the maximum of its
\* valid_lengths, valid_lengths[j] equal to the pre-padding length of the j-th
\* sequence of the group, label j that of the j-th sequence, and the pad id
\* at every position beyond valid_lengths[j] of column j.
C9_BatchInvariant ==
    (loader_pc = "iterating" /\ batch_pos >= 1) =>
      LET group == yielded[Len(yielded)]
          padded == batch[1][1]
          lens == batch[1][2]
          labels == batch[2]
          max_len == MaxOf(Range(lens))
      IN /\ Len(padded) = Len(group)
         /\ Len(lens) = Len(group)
         /\ Len(labels) = Len(group)
         /\ \A j \in 1..Len(group) :
               /\ Len(padded[j]) = max_len
               /\ lens[j] = Len(train_dataset[group[j]][1])
               /\ labels[j] = train_dataset[group[j]][2]
               /\ \A t \in 1..max_len : t > lens[j] => padded[j][t] = PadVal

\* a batch of two sequences of different lengths and different labels, the
\* shorter one first
C9_Witness ==
    /\ loader_pc = "iterating"
    /\ batch_pos >= 1
    /\ Len(batch[2]) = 2
    /\ batch[1][2][1] < batch[1][2][2]
    /\ batch[2][1] # batch[2][2]


\* the number of chunks of `count` members cut at `size`
Ceil(count, size) == (count + size - 1) \div size

\* C17: every index group the sampler yields holds indices of one bucket
\* only, with or without shuffling; within a bucket every group has the
\* bucket's batch size except at most one shorter chunk, so an iteration
\* yields sum over the buckets of ceil(member count / bucket batch size)
\* groups.
C17_BatchesWithinOneBucket ==
    batch_sampler # <<>> =>
      LET keys == batch_sampler.bucket_keys
          sizes == batch_sampler.bucket_batch_sizes
          nb == Len(keys)
          \* bucket b holds the examples whose smallest fitting key is keys[b]
          members(b) == {i \in 1..Len(train_data_lengths) :
                            MatchBucketKey(Range(keys), train_data_lengths[i]) = keys[b]}
          of(b) == {k \in 1..Len(yielded) : Range(yielded[k]) \subseteq members(b)}
      IN /\ (loader_pc = "iterating" /\ batch_pos >= 1) =>
               LET group == yielded[Len(yielded)]
               IN /\ group # <<>>
                  /\ \E b \in 1..nb : /\ Range(group) \subseteq members(b)
                                       /\ Len(group) <= sizes[b]
         /\ (loader_pc = "ready" /\ iterations >= 1) =>
               /\ \A b \in 1..nb :
                     /\ Cardinality(of(b)) = Ceil(Cardinality(members(b)), sizes[b])
                     /\ Cardinality({k \in of(b) : Len(yielded[k]) < sizes[b]}) <= 1
                     /\ \A k \in of(b) : Len(yielded[k]) <= sizes[b]
               /\ \A k \in 1..Len(yielded) : \E b \in 1..nb : k \in of(b)
               /\ Len(yielded) =
                     SumTo([b \in 1..nb |->
                               Ceil(Cardinality(members(b)), sizes[b])], nb)

\* a shuffled iteration over two buckets is exhausted, one group full and one
\* shorter than its bucket's batch size
C17_Witness ==
    /\ loader_pc = "ready"
    /\ iterations >= 1
    /\ batch_sampler.shuffle
    /\ Len(batch_sampler.bucket_keys) = 2
    /\ \E k \in 1..Len(yielded) : Len(yielded[k]) >= 2
    /\ \E k \in 1..Len(yielded) : Len(yielded[k]) = 1

----------------------------------------------------------------------------
\* preprocess, get_length and preprocess_dataset
\*
\* A review is <<words, rating>>; words is the list of tokens the tokenizer
\* cuts the text into, each word given by its rank 0, 1, ... in the vocabulary.

\* length_clip = nlp.data.ClipSequence(500)
ClipLength == 500

\* ClipSequence: the list, cut after its first ClipLength elements
length_clip(tokens) == SubSeq(tokens, 1, Min2(Len(tokens), ClipLength))

\* vocab[...]: the index of a word; index 0 is not a word's
vocab(tokens) == [k \in 1..Len(tokens) |-> tokens[k] + 1]

\* preprocess(x): the label is int(rating > 5), the data the clipped token ids
preprocess(x) ==
    <<vocab(length_clip(x[1])), IF x[2] > 5 THEN 1 ELSE 0>>

\* word k of review i
WordOf(i, k) == (i + k) % 2

\* numbers of words of the reviews tried: none, two, the clip length, and one
\* more than the clip length
RawLens == {0, 2, ClipLength, ClipLength + 1}

\* ratings of the reviews tried, on both sides of the label's threshold
Ratings == {5, 6}

\* a map whose result lists the results in the order the workers finished
PoolMapCollectAsCompleted(results, order) ==
    [k \in 1..Len(order) |-> results[order[k]]]

\* pool.map's result: the result of task i at position i, whatever the order
\* in which the workers finished
PoolMapCollect(results, order) ==
    [i \in 1..Len(order) |-> results[i]]

\* the last n elements of s
LastN(s, n) == SubSeq(s, Len(s) - n + 1, Len(s))

\* preprocess_dataset(dataset) is called
InitPreprocess ==
    /\ PoolOff
    /\ ConfigOff
    /\ LoaderOff
    /\ TrainOff
    /\ EvalOff
    /\ \E n \in 0..MaxReviews :
          \E ls \in [1..n -> RawLens], rs \in [1..n -> Ratings] :
             raw_dataset = [i \in 1..n |->
                               <<[k \in 1..ls[i] |-> WordOf(i, k)], rs[i]>>]
    /\ prep_dataset = raw_dataset
    /\ prep_lengths = <<>>
    /\ map_results = <<>>
    /\ map_order = <<>>
    /\ prep_pc = "map_preprocess"

\* pool.map(preprocess, dataset): some worker finishes some task not yet done
WorkerPreprocess ==
    /\ prep_pc = "map_preprocess"
    /\ \E i \in (1..Len(prep_dataset)) \ DOMAIN map_results :
          /\ map_results' = [j \in DOMAIN map_results \cup {i} |->
                                IF j = i THEN preprocess(prep_dataset[i])
                                ELSE map_results[j]]
          /\ map_order' = Append(map_order, i)
    /\ UNCHANGED <<poolVars, configVars, loaderVars, trainVars, evalVars,
                   raw_dataset, prep_dataset, prep_lengths, prep_pc>>

\* dataset = gluon.data.SimpleDataset(pool.map(preprocess, dataset)): every
\* task is done and the map returns
PoolMapPreprocess ==
    /\ prep_pc = "map_preprocess"
    /\ DOMAIN map_results = 1..Len(prep_dataset)
    /\ prep_dataset' = PoolMapCollect(map_results,
                                      LastN(map_order, Len(prep_dataset)))
    /\ map_results' = <<>>
    /\ prep_pc' = "map_get_length"
    /\ UNCHANGED <<poolVars, configVars, loaderVars, trainVars, evalVars,
                   raw_dataset, prep_lengths, map_order>>

\* pool.map(get_length, dataset), over the mapped dataset: some worker
\* finishes some task not yet done
WorkerGetLength ==
    /\ prep_pc = "map_get_length"
    /\ \E i \in (1..Len(prep_dataset)) \ DOMAIN map_results :
          /\ map_results' = [j \in DOMAIN map_results \cup {i} |->
                                IF j = i THEN get_length(prep_dataset[i])
                                ELSE map_results[j]]
          /\ map_order' = Append(map_order, i)
    /\ UNCHANGED <<poolVars, configVars, loaderVars, trainVars, evalVars,
                   raw_dataset, prep_dataset, prep_lengths, prep_pc>>

\* lengths = gluon.data.SimpleDataset(pool.map(get_length, dataset));
\* return dataset, lengths
PoolMapGetLength ==
    /\ prep_pc = "map_get_length"
    /\ DOMAIN map_results = 1..Len(prep_dataset)
    /\ prep_lengths' = PoolMapCollect(map_results,
                                      LastN(map_order, Len(prep_dataset)))
    /\ map_results' = <<>>
    /\ prep_pc' = "done"
    /\ UNCHANGED <<poolVars, configVars, loaderVars, trainVars, evalVars,
                   raw_dataset, prep_dataset, map_order>>

NextPreprocess ==
    \/ WorkerPreprocess
    \/ PoolMapPreprocess
    \/ WorkerGetLength
    \/ PoolMapGetLength

SpecPreprocess == InitPreprocess /\ [][NextPreprocess]_vars

\* C14: whatever the order in which the workers finish, the dataset
\* preprocess_dataset returns is in input order: example i is preprocess of
\* review i, its label is 1 iff the rating is greater than 5 and it holds at
\* most 500 token ids (those of the review's first words); and lengths[i] is
\* the number of token ids of example i.
C14_PreprocessKeepsOrder ==
    /\ prep_pc \in {"map_get_length", "done"} =>
          /\ Len(prep_dataset) = Len(raw_dataset)
          /\ \A i \in 1..Len(raw_dataset) :
                LET words == raw_dataset[i][1]
                    ids == prep_dataset[i][1]
                IN /\ prep_dataset[i] = preprocess(raw_dataset[i])
                   /\ (prep_dataset[i][2] = 1) <=> (raw_dataset[i][2] > 5)
                   /\ prep_dataset[i][2] \in {0, 1}
                   /\ Len(ids) <= 500
                   /\ Len(ids) = Min2(Len(words), 500)
                   /\ \A k \in 1..Len(ids) : ids[k] = words[k] + 1
    /\ prep_pc = "done" =>
          /\ Len(prep_lengths) = Len(prep_dataset)
          /\ \A i \in 1..Len(prep_dataset) :
                prep_lengths[i] = Len(prep_dataset[i][1])

\* two reviews of different lengths and labels, one longer than the clip
\* length, were mapped, and in both maps the second task finished first
C14_Witness ==
    /\ prep_pc = "done"
    /\ Len(raw_dataset) = 2
    /\ map_order = <<2, 1, 2, 1>>
    /\ prep_dataset[1][2] # prep_dataset[2][2]
    /\ prep_lengths[1] # prep_lengths[2]
    /\ \E i \in 1..2 : Len(raw_dataset[i][1]) > Len(prep_dataset[i][1])

----------------------------------------------------------------------------
\* evaluate(net, dataloader, context) and train(net, context, epochs)

\* lengths of the held-out examples tried: an empty review and a two-token one
TestLens == {0, 2}

\* grad_clip is None or <<threshold>>
None == <<>>

\* values of grad_clip tried: not configured (the notebook), 0, and a threshold
GradClips == {None, <<0>>, <<1>>}

\* mx.nd.transpose of an (N, T) array
Transpose(x, T) == [t \in 1..T |-> [j \in 1..Len(x) |-> x[j][t]]]

\* self.encoder(self.embedding(data)): the pretrained language model, opaque
\* here; one feature per position, pad positions included, none of them zero
EncoderOracle(x) == [t \in DOMAIN x |-> [j \in DOMAIN x[t] |-> x[t][j] + 1]]

\* the indices of the k-th batch of a loader that walks the dataset backwards
SequentialBatchReversed(dataset, bs, k) ==
    [j \in 1..(Min2(k * bs, Len(dataset)) - (k - 1) * bs) |->
        Len(dataset) + 1 - ((k - 1) * bs + j)]

\* len(test_dataloader): batches of batch_size in dataset order, the last kept
NumBatches(dataset, bs) == (Len(dataset) + bs - 1) \div bs

\* the indices of the k-th batch of DataLoader(dataset, batch_size, shuffle=False)
SequentialBatch(dataset, bs, k) ==
    [j \in 1..(Min2(k * bs, Len(dataset)) - (k - 1) * bs) |-> (k - 1) * bs + j]

\* every batch of the held-out loader holds a sequence that is not empty (a
\* batch of empty sequences only has shape (N, 0); what the array library does
\* with it is not part of this model)
NoEmptyBatch(dataset, bs) ==
    \A k \in 1..NumBatches(dataset, bs) :
        \E m \in Range(SequentialBatch(dataset, bs, k)) : Len(dataset[m][1]) > 0

\* `if grad_clip:`
Truthy(g) == g # <<>> /\ g[1] # 0

\* pred = (output > 0.5).reshape(-1)
Pred(out) == [j \in DOMAIN out |-> IF Greater(out[j], Half) THEN 1 ELSE 0]

\* (pred == label).sum()
CorrectNum(p, l) == Cardinality({j \in DOMAIN p : p[j] = l[j]})

TrainPcs == {"forward", "loss", "backward", "clip", "step"}
BatchPcs == TrainPcs \cup {"batch_loop"}

Init ==
    /\ PrepOff
    /\ PoolOff
    /\ LoaderOff
    /\ batch_size \in BatchSizes
    /\ bucket_num = 0
    /\ bucket_ratio = <<0, 1>>
    /\ pc = "start"
    /\ epochs \in 0..MaxEpochs
    /\ grad_clip \in GradClips
    /\ train_batches \in 1..MaxTrainBatches
    /\ epoch = 0
    /\ batch_i = 0
    /\ params = [embedding |-> 0, encoder |-> 0, output |-> 0]
    /\ fwd_params = <<>>
    /\ grad = "none"
    /\ ops = <<>>
    /\ steps_total = 0
    /\ eval_started = 0
    /\ eval_finished = 0
    /\ raised = FALSE
    /\ \E n \in 0..MaxExamples : \E lens \in [1..n -> TestLens] :
          /\ test_dataset = [k \in 1..n |-> Example(k, lens[k])]
          /\ NoEmptyBatch(test_dataset, batch_size)
    /\ eval_i = 0
    /\ total_sample_num = 0
    /\ total_correct_num = 0
    /\ output = <<>>
    /\ pred = <<>>
    /\ label = <<>>
    /\ test_acc = <<>>

\* trainer = gluon.Trainer(net.collect_params(), ...); loss; parameters
TrainBegin ==
    /\ pc = "start"
    /\ pc' = "epoch_loop"
    /\ UNCHANGED <<prepVars, poolVars, configVars, loaderVars, evalVars, epochs, grad_clip, raised,
                   train_batches, epoch, batch_i, params, fwd_params, grad, ops,
                   steps_total, eval_started, eval_finished>>

\* for epoch in range(epochs): the next iteration, the epoch's stats reset
EpochLoop ==
    /\ pc = "epoch_loop"
    /\ IF epoch < epochs
       THEN /\ pc' = "batch_loop"
            /\ batch_i' = 0
       ELSE /\ pc' = "done"
            /\ UNCHANGED batch_i
    /\ UNCHANGED <<prepVars, poolVars, configVars, loaderVars, evalVars, epochs, grad_clip, raised,
                   train_batches, epoch, params, fwd_params, grad, ops,
                   steps_total, eval_started, eval_finished>>

\* for i, ((data, length), label) in enumerate(train_dataloader): the next
\* batch and its word counts, or the end of the epoch's batches
BatchLoop ==
    /\ pc = "batch_loop"
    /\ IF batch_i < train_batches
       THEN /\ pc' = "forward"
            /\ ops' = <<>>
       ELSE /\ pc' = "evaluate"
            /\ UNCHANGED ops
    /\ UNCHANGED <<prepVars, poolVars, configVars, loaderVars, evalVars, epochs, grad_clip, raised,
                   train_batches, epoch, batch_i, params, fwd_params, grad,
                   steps_total, eval_started, eval_finished>>

\* output = net(data.T, length) under autograd.record()
ForwardPass ==
    /\ pc = "forward"
    /\ fwd_params' = params
    /\ ops' = Append(ops, "forward")
    /\ pc' = "loss"
    /\ UNCHANGED <<prepVars, poolVars, configVars, loaderVars, evalVars, epochs, grad_clip, raised,
                   train_batches, epoch, batch_i, params, grad,
                   steps_total, eval_started, eval_finished>>

\* L = L + loss(output, label).mean()
LossValue ==
    /\ pc = "loss"
    /\ ops' = Append(ops, "loss")
    /\ pc' = "backward"
    /\ UNCHANGED <<prepVars, poolVars, configVars, loaderVars, evalVars, epochs, grad_clip, raised,
                   train_batches, epoch, batch_i, params, fwd_params, grad,
                   steps_total, eval_started, eval_finished>>

\* L.backward()
Backward ==
    /\ pc = "backward"
    /\ grad' = "fresh"
    /\ ops' = Append(ops, "backward")
    /\ pc' = "clip"
    /\ UNCHANGED <<prepVars, poolVars, configVars, loaderVars, evalVars, epochs, grad_clip, raised,
                   train_batches, epoch, batch_i, params, fwd_params,
                   steps_total, eval_started, eval_finished>>

\* a clip that does not look at grad_clip
ClipGradientAlways ==
    /\ pc = "clip"
    /\ grad' = "clipped"
    /\ ops' = Append(ops, "clip")
    /\ pc' = "step"
    /\ UNCHANGED <<prepVars, poolVars, configVars, loaderVars, evalVars, epochs, grad_clip, raised,
                   train_batches, epoch, batch_i, params, fwd_params,
                   steps_total, eval_started, eval_finished>>

\* if grad_clip: gluon.utils.clip_global_norm(...)
ClipGradient ==
    /\ pc = "clip"
    /\ IF Truthy(grad_clip)
       THEN /\ grad' = "clipped"
            /\ ops' = Append(ops, "clip")
       ELSE UNCHANGED <<grad, ops>>
    /\ pc' = "step"
    /\ UNCHANGED <<prepVars, poolVars, configVars, loaderVars, evalVars, epochs, grad_clip, raised,
                   train_batches, epoch, batch_i, params, fwd_params,
                   steps_total, eval_started, eval_finished>>

\* trainer.step(1) followed by an evaluation inside the batch loop
TrainerStepThenEvaluate ==
    /\ pc = "step"
    /\ params' = [g \in DOMAIN params |-> params[g] + 1]
    /\ steps_total' = steps_total + 1
    /\ grad' = "none"
    /\ ops' = Append(ops, "step")
    /\ batch_i' = batch_i + 1
    /\ pc' = "evaluate"
    /\ UNCHANGED <<prepVars, poolVars, configVars, loaderVars, evalVars, epochs, grad_clip, raised,
                   train_batches, epoch, fwd_params, eval_started, eval_finished>>

\* trainer.step(1): every parameter trainer was given (net.collect_params())
\* is updated; then the batch's losses are logged
TrainerStep ==
    /\ pc = "step"
    /\ params' = [g \in DOMAIN params |-> params[g] + 1]
    /\ steps_total' = steps_total + 1
    /\ grad' = "none"
    /\ ops' = Append(ops, "step")
    /\ batch_i' = batch_i + 1
    /\ pc' = "batch_loop"
    /\ UNCHANGED <<prepVars, poolVars, configVars, loaderVars, evalVars, epochs, grad_clip, raised,
                   train_batches, epoch, fwd_params, eval_started, eval_finished>>

\* a statement of the batch loop raises and the next batch is taken instead
TrainBatchSkipped ==
    /\ pc \in TrainPcs
    /\ raised' = TRUE
    /\ batch_i' = batch_i + 1
    /\ pc' = "batch_loop"
    /\ UNCHANGED <<prepVars, poolVars, configVars, loaderVars, evalVars, epochs,
                   grad_clip, train_batches, epoch, params, fwd_params, grad, ops,
                   steps_total, eval_started, eval_finished>>

\* a statement of the batch loop (the forward pass, the loss, backward, the
\* clip or trainer.step) raises: train has no try/except, so the exception
\* leaves the batch loop, the epoch loop and train
TrainBatchRaises ==
    /\ pc \in TrainPcs
    /\ raised' = TRUE
    /\ pc' = "aborted"
    /\ UNCHANGED <<prepVars, poolVars, configVars, loaderVars, evalVars, epochs,
                   grad_clip, train_batches, epoch, batch_i, params, fwd_params,
                   grad, ops, steps_total, eval_started, eval_finished>>

\* a statement of evaluate's loop body raises: neither evaluate nor train has
\* a try/except, so the exception leaves both; the batch is not counted
EvalBatchRaises ==
    /\ pc = "eval_loop"
    /\ eval_i < NumBatches(test_dataset, batch_size)
    /\ raised' = TRUE
    /\ pc' = "aborted"
    /\ UNCHANGED <<prepVars, poolVars, configVars, loaderVars, evalVars, epochs,
                   grad_clip, train_batches, epoch, batch_i, params, fwd_params,
                   grad, ops, steps_total, eval_started, eval_finished>>

\* test_avg_L, test_acc = evaluate(net, test_dataloader, context): the totals
\* are set to 0
EvaluateCall ==
    /\ pc = "evaluate"
    /\ eval_started' = eval_started + 1
    /\ eval_i' = 0
    /\ total_sample_num' = 0
    /\ total_correct_num' = 0
    /\ pc' = "eval_loop"
    /\ UNCHANGED <<prepVars, poolVars, configVars, loaderVars, test_dataset, output, pred,
                   label, test_acc, epochs, grad_clip, raised, train_batches, epoch, batch_i, params,
                   fwd_params, grad, ops, steps_total, eval_finished>>

\* an iteration of evaluate's loop that also applies an optimizer step
EvalBatchTraining ==
    /\ pc = "eval_loop"
    /\ eval_i < NumBatches(test_dataset, batch_size)
    /\ LET b == LoadBatch(test_dataset,
                          SequentialBatch(test_dataset, batch_size, eval_i + 1))
           lens == b[1][2]
           encoded == EncoderOracle(Transpose(b[1][1], MaxOf(Range(lens))))
       IN /\ data' = encoded
          /\ valid_length' = lens
          /\ agg_state' = MeanPoolingLayer(encoded, lens)
          /\ pool_pc' = "pooled"
          /\ output' \in OutputLayer(agg_state')
          /\ pred' = Pred(output')
          /\ label' = b[2]
          /\ total_sample_num' = total_sample_num + Len(b[2])
          /\ total_correct_num' = total_correct_num + CorrectNum(pred', label')
    /\ eval_i' = eval_i + 1
    /\ params' = [g \in DOMAIN params |-> params[g] + 1]
    /\ UNCHANGED <<prepVars, configVars, loaderVars, test_dataset, test_acc, pc,
                   epochs, grad_clip, raised, train_batches, epoch, batch_i,
                   fwd_params, grad, ops, steps_total, eval_started, eval_finished>>

\* one iteration of evaluate's loop: the batch is assembled, forwarded
\* through the network, and counted
EvalBatch ==
    /\ pc = "eval_loop"
    /\ eval_i < NumBatches(test_dataset, batch_size)
    /\ LET b == LoadBatch(test_dataset,
                          SequentialBatch(test_dataset, batch_size, eval_i + 1))
           lens == b[1][2]
           encoded == EncoderOracle(Transpose(b[1][1], MaxOf(Range(lens))))
       IN /\ data' = encoded
          /\ valid_length' = lens
          /\ agg_state' = MeanPoolingLayer(encoded, lens)
          /\ pool_pc' = "pooled"
          /\ output' \in OutputLayer(agg_state')
          /\ pred' = Pred(output')
          /\ label' = b[2]
          /\ total_sample_num' = total_sample_num + Len(b[2])
          /\ total_correct_num' = total_correct_num + CorrectNum(pred', label')
    /\ eval_i' = eval_i + 1
    /\ UNCHANGED <<prepVars, configVars, loaderVars, trainVars, test_dataset, test_acc>>

\* the loop of evaluate is exhausted:
\* avg_L = total_L / float(total_sample_num); acc = ...; return avg_L, acc
\* (a division by zero raises ZeroDivisionError, which leaves train)
EvalReturn ==
    /\ pc = "eval_loop"
    /\ eval_i = NumBatches(test_dataset, batch_size)
    /\ IF total_sample_num = 0
       THEN /\ pc' = "error"
            /\ UNCHANGED <<eval_finished, test_acc>>
       ELSE /\ pc' = "report"
            /\ eval_finished' = eval_finished + 1
            /\ test_acc' = Frac(total_correct_num, total_sample_num)
    /\ UNCHANGED <<prepVars, poolVars, configVars, loaderVars, test_dataset, eval_i,
                   total_sample_num, total_correct_num, output, pred, label,
                   epochs, grad_clip, raised,
                   train_batches, epoch, batch_i, params, fwd_params, grad, ops,
                   steps_total, eval_started>>

\* print('[Epoch {}] train avg loss ..., test acc ...'); the next epoch
Report ==
    /\ pc = "report"
    /\ epoch' = epoch + 1
    /\ pc' = "epoch_loop"
    /\ UNCHANGED <<prepVars, poolVars, configVars, loaderVars, evalVars, epochs, grad_clip, raised,
                   train_batches, batch_i, params, fwd_params, grad, ops,
                   steps_total, eval_started, eval_finished>>

Next ==
    \/ TrainBegin
    \/ EpochLoop
    \/ BatchLoop
    \/ ForwardPass
    \/ LossValue
    \/ Backward
    \/ ClipGradient
    \/ TrainerStep
    \/ EvaluateCall
    \/ EvalBatch
    \/ EvalReturn
    \/ Report
    \/ TrainBatchRaises
    \/ EvalBatchRaises

Spec == Init /\ [][Next]_vars

----------------------------------------------------------------------------
\* Properties of the pooling layer and of the inference cells

\* the sum of the first n positions of column j
ColumnSum(d, j, n) == SumTo([t \in 1..n |-> d[t][j]], n)

\* C1: for every feature tensor and every valid_length with
\* 1 <= valid_length[j] <= seq_len, the pooled vector of example j is the sum
\* of the features at its first valid_length[j] positions divided by
\* valid_length[j], and replacing the content of a position at or beyond
\* valid_length[j] leaves the pooled vector of j as it was.
C1_MaskedMean ==
    /\ [](pool_pc = "pooled" =>
            \A j \in DOMAIN valid_length :
               (1 <= valid_length[j] /\ valid_length[j] <= Len(data)) =>
                  agg_state[j] = Frac(ColumnSum(data, j, valid_length[j]),
                                      valid_length[j]))
    /\ [][PadContaminate =>
            \A j \in DOMAIN valid_length :
               (1 <= valid_length[j] /\ valid_length[j] <= Len(data)) =>
                  agg_state'[j] = agg_state[j]]_vars

\* a pooled column whose pad positions hold non-zero features and whose mean
\* is not 0
C1_Witness ==
    /\ pool_pc = "pooled"
    /\ \E j \in DOMAIN valid_length :
          /\ 1 <= valid_length[j]
          /\ valid_length[j] < Len(data)
          /\ \A t \in (valid_length[j] + 1)..Len(data) : data[t][j] # 0
          /\ agg_state[j] # Zero

\* C6: in single-sentence inference the valid length handed to the network is
\* the number of tokens of the sentence, so the pooled representation is the
\* average over all n positions.
C6_InferenceAveragesAllTokens ==
    pool_pc = "inferred" =>
        /\ valid_length = <<Len(data)>>
        /\ agg_state[1] = Frac(ColumnSum(data, 1, Len(data)), Len(data))


\* C13: the positive/negative boundary is the same everywhere: for every
\* logit the label the inference cell prints (Positive iff sigmoid(logit) >
\* 0.5) is the label evaluate predicts for that logit, and a logit of exactly
\* 0 is labelled negative by both.
C13_SameBoundaryEverywhere ==
    pool_pc = "inferred" =>
        /\ pred = Pred(output)
        /\ output[1] = Zero => (pred[1] = 0 /\ Pred(output)[1] = 0)

----------------------------------------------------------------------------
\* Properties of train and evaluate

IsPrefix(s, t) == Len(s) <= Len(t) /\ s = SubSeq(t, 1, Len(s))

\* C2: the evaluation pass of an epoch starts only after every training batch
\* of that epoch has been processed, exactly one evaluation pass runs per
\* epoch, and no training batch of the next epoch is processed before the
\* evaluation of the epoch has finished.
C2_EpochCycle ==
    /\ pc \in {"evaluate", "eval_loop"} =>
          /\ batch_i = train_batches
          /\ steps_total = (epoch + 1) * train_batches
          /\ eval_finished = epoch
    /\ pc = "evaluate" => eval_started = epoch
    /\ pc = "eval_loop" => eval_started = epoch + 1
    /\ pc = "report" => eval_started = epoch + 1 /\ eval_finished = epoch + 1
    /\ pc \in BatchPcs \cup {"epoch_loop", "done"} =>
          /\ eval_started = epoch
          /\ eval_finished = epoch

\* the evaluation of the second epoch is under way after two training batches
C2_Witness ==
    /\ pc = "eval_loop"
    /\ epoch = 1
    /\ train_batches = 2
    /\ eval_i >= 1

\* the operations one training batch goes through
ExpectedOps(g) ==
    IF Truthy(g) THEN <<"forward", "loss", "backward", "clip", "step">>
    ELSE <<"forward", "loss", "backward", "step">>

\* C3: each training batch is handled in the order forward pass, loss,
\* backward pass, gradient clipping (only when grad_clip is set), one optimizer
\* step; a batch's step is complete before the next forward pass begins, one
\* step is applied per batch, and every forward pass reads the parameters
\* written by the step before it.
C3_BatchStepOrder ==
    /\ pc \in BatchPcs =>
          /\ IsPrefix(ops, ExpectedOps(grad_clip))
          /\ steps_total = epoch * train_batches + batch_i
          /\ \A g \in DOMAIN params : params[g] = steps_total
    /\ (pc = "batch_loop" /\ batch_i >= 1) => ops = ExpectedOps(grad_clip)
    /\ (\E k \in DOMAIN ops : ops[k] = "clip") => grad_clip # None
    /\ pc \in {"loss", "backward", "clip", "step"} => fwd_params = params

\* the second batch of an epoch has been stepped after a clipped gradient
C3_Witness ==
    /\ pc = "batch_loop"
    /\ batch_i = 2
    /\ Truthy(grad_clip)
    /\ ops = <<"forward", "loss", "backward", "clip", "step">>
    /\ steps_total >= 2

\* C4: for every epochs >= 0 and every finite train and test loader, train
\* runs to its end (it is never left by an error), and at its end it has made
\* exactly `epochs` iterations of the epoch loop, applied exactly
\* epochs * (number of training batches) optimizer steps and run exactly
\* `epochs` evaluation passes.
C4_TrainRunsAllEpochs ==
    /\ pc # "error"
    /\ pc = "done" =>
          /\ epoch = epochs
          /\ steps_total = epochs * train_batches
          /\ eval_started = epochs
          /\ eval_finished = epochs

\* C5: in evaluate an example is predicted positive exactly when its logit is
\* greater than 0, and it is counted as correct exactly when that prediction
\* equals its label.
C5_PositiveIffLogitPositive ==
    (pc = "eval_loop" /\ eval_i >= 1) =>
        /\ \A j \in DOMAIN output : (pred[j] = 1) <=> Greater(output[j], Zero)
        /\ eval_i = 1 =>
              total_correct_num =
                 Cardinality({j \in DOMAIN output :
                                 Greater(output[j], Zero) <=> (label[j] = 1)})

\* C10: no batch with a valid length of 0 ever reaches MeanPoolingLayer (an
\* example of length 0 is rejected before it is batched), so pooling never
\* divides by zero.
C10_NoZeroLengthReachesPooling ==
    pool_pc = "pooled" =>
        \A j \in DOMAIN valid_length :
            valid_length[j] >= 1 /\ agg_state[j] # NaN

\* C11: with the notebook's configuration training is classifier-only: after
\* any number of optimizer steps the embedding and the encoder parameters are
\* the pretrained ones, and only the output head's parameters have changed.
C11_ClassifierOnlyTraining ==
    /\ params.embedding = 0
    /\ params.encoder = 0
    /\ steps_total >= 1 => params.output # 0

\* C12: when a training or an evaluation batch raises, train is left with
\* that error: the raising batch applies no optimizer step and is not counted,
\* no later batch is processed, no further optimizer step is applied, and no
\* epoch summary is reported for the epoch of the error; no batch that raised
\* is skipped.
C12_BadBatchAborts ==
    /\ [](raised => pc = "aborted")
    /\ [](pc = "aborted" => (raised /\ eval_finished = epoch))
    /\ [][(raised' /\ ~raised) =>
            steps_total' = steps_total /\ params' = params /\
            total_sample_num' = total_sample_num /\
            eval_finished' = eval_finished]_vars
    /\ [][(pc \in {"aborted", "error"}) =>
            pc' = pc /\ steps_total' = steps_total /\ params' = params /\
            batch_i' = batch_i /\ eval_i' = eval_i /\ epoch' = epoch /\
            eval_finished' = eval_finished]_vars

\* a training batch raised after an earlier batch was stepped, with batches
\* of the epoch still to come
C12_Witness ==
    /\ pc = "aborted"
    /\ raised
    /\ steps_total >= 1
    /\ batch_i < train_batches
    /\ epoch + 1 < epochs

\* C15: the model parameters change only in the optimizer step of train; an
\* evaluation pass leaves every parameter as it was, so the parameters at the
\* start of an epoch are those written by the last optimizer step of the epoch
\* before.
C15_ParamsChangeOnlyInStep ==
    /\ [][params' # params => pc' = "batch_loop" /\ "step" = pc]_vars
    /\ [][(pc \in {"evaluate", "eval_loop", "report"}) => params' = params]_vars
    /\ []((pc = "batch_loop" /\ batch_i = 0) =>
            \A g \in DOMAIN params : params[g] = epoch * train_batches)

\* the second epoch starts after an evaluation pass of at least one batch
C15_Witness ==
    /\ pc = "batch_loop"
    /\ batch_i = 0
    /\ epoch = 1
    /\ eval_finished = 1
    /\ eval_i >= 1
    /\ params.output >= 1

\* C16: an evaluation pass takes the held-out examples in dataset order, in
\* consecutive batches of batch_size (only the last may be shorter); every
\* example is counted once, so when the pass returns total_sample_num is the
\* size of the held-out dataset, total_correct_num <= total_sample_num and the
\* accuracy returned is total_correct_num / total_sample_num.
C16_EvaluationPass ==
    /\ (pc = "eval_loop" /\ eval_i >= 1) =>
          LET first == (eval_i - 1) * batch_size
              n == Min2(batch_size, Len(test_dataset) - first)
          IN /\ Len(label) = n
             /\ Len(valid_length) = n
             /\ \A j \in 1..n :
                   /\ label[j] = test_dataset[first + j][2]
                   /\ valid_length[j] = Len(test_dataset[first + j][1])
             /\ eval_i < NumBatches(test_dataset, batch_size) => n = batch_size
             /\ total_sample_num = first + n
             /\ total_correct_num <= total_sample_num
    /\ pc = "report" =>
          /\ total_sample_num = Len(test_dataset)
          /\ total_correct_num <= total_sample_num
          /\ test_acc = Frac(total_correct_num, total_sample_num)

\* a pass over three examples in a full and a shorter batch has returned with
\* some but not all predictions correct
C16_Witness ==
    /\ pc = "report"
    /\ Len(test_dataset) = 3
    /\ batch_size = 2
    /\ eval_i = 2
    /\ 0 < total_correct_num
    /\ total_correct_num < total_sample_num

====
